---- MODULE Spec2Model ----
(***************************************************************************)
(* Model of the Karate -> TestRail reconciliation pipeline                 *)
(* (agent/main.py, agent/testrail_sync.py, agent/testrail_runner.py,       *)
(* agent/testrail_client.py, agent/karate_parser.py).                      *)
(*                                                                         *)
(* Text is modelled as a sequence of one-character strings, so that        *)
(* split('.') and f"{feature}.{scenario}" are computed, not assumed.       *)
(* Python's None is 0 wherever the code only tests truthiness of an id     *)
(* (if section_id:, if not case_id:, if not run_id:), and the empty        *)
(* sequence where the code tests a dict or a list.                         *)
(***************************************************************************)
EXTENDS Integers, Sequences, FiniteSets, TLC

\* ------------------------------------------------------------------ bounds
MaxResults == 2
MaxInvocations == 2
MaxFailures == 1
MaxItems == 2
MaxWorkers == 2
MaxPieces == 2
MaxAssertions == 2

\* ------------------------------------------------------------------- text
Contains(s, c) == \E i \in 1..Len(s) : s[i] = c

\* a split that leaves the text whole
SplitFirst_Whole(s, c) == s

\* s.split(c)[0]: the text before the first occurrence of c
SplitFirst(s, c) ==
  IF Contains(s, c)
    THEN LET i == CHOOSE k \in 1..Len(s) :
                    s[k] = c /\ \A j \in 1..(k - 1) : s[j] # c
         IN  SubSeq(s, 1, i - 1)
    ELSE s

SeqsUpTo(S, n) == UNION { [1..k -> S] : k \in 0..n }

\* k in s, for texts
IsSubstring(k, s) == \E i \in 0..(Len(s) - Len(k)) : SubSeq(s, i + 1, i + Len(k)) = k

\* str.lower(), on the letters the texts of the model are written with
LowerChar(c) ==
  CASE c = "P" -> "p"
    [] c = "S" -> "s"
    [] OTHER   -> c

Lower(s) == [i \in 1..Len(s) |-> LowerChar(s[i])]

\* ------------------------------------------------------------ the Results
\* state.py TestResult, the fields reconciliation reads
\* error_message "" is None
Result(feature, scenario, status, error_message, gherkin_steps, background_steps, expected_assertions) ==
  [feature |-> feature, scenario |-> scenario, status |-> status,
   error_message |-> error_message, gherkin_steps |-> gherkin_steps,
   background_steps |-> background_steps, expected_assertions |-> expected_assertions]

\* The Results an artifact is made of: a summary-mode Result (feature ==
\* scenario), a plain scenario, a scenario whose name has a '.', and a
\* scenario with a status outside the Result vocabulary.
TestResult ==
  { Result(<<"P">>, <<"P">>, "passed", "", <<>>, <<>>, <<>>),
    Result(<<"P">>, <<"g">>, "failed", "status 500",
           << "Given path 'posts'", "When method get" >>, << "Given url base" >>,
           << "Then status 200" >>),
    Result(<<"P">>, <<"g", ".", "1">>, "skipped", "", << "When method post" >>, <<>>, <<>>),
    Result(<<"P">>, <<"h">>, "undefined", "", <<>>, <<>>, <<>>) }

\* ------------------------------------------------------------ identities
\* a sync that does not clean the scenario name
SyncAutomationId_Whole(r) ==
  IF r.feature = r.scenario THEN r.feature ELSE r.feature \o <<".">> \o r.scenario

\* testrail_sync.py 207-213: (automation_id, title) of a Result
SyncAutomationId(r) ==
  IF r.feature = r.scenario
    THEN r.feature
    ELSE LET scenario_clean == IF Contains(r.scenario, ".")
                                 THEN SplitFirst(r.scenario, ".")
                                 ELSE r.scenario
         IN  r.feature \o <<".">> \o scenario_clean

SyncTitle(r) ==
  IF r.feature = r.scenario
    THEN r.feature
    ELSE IF Contains(r.scenario, ".") THEN SplitFirst(r.scenario, ".") ELSE r.scenario

\* -------------------------------------------------------------- the parser
\* A JSON artifact, as far as parse_karate_json looks into it.  An optional
\* key is a sequence of length <= 1 (<<>>: the key is absent).
\*   kind      "missing" (no file), "invalid" (not JSON), "falsy" (null, {},
\*             [], 0, ""), "scalar" (any other non-container), "list", "dict"
\*   items     the features of a top-level list
\*   sr        scenarioResults: [islist, items]
\*   elements  the document is one feature: its elements
\*   features  the features of the document
\*   fs        featureSummary: [islist, items]

\* an entry of stepResults.  dict = FALSE: the entry, or its 'step', is not
\* a JSON object; str = FALSE: prefix or text is not a string (null)
StepResult(dict, str, prefix, text) ==
  [dict |-> dict, str |-> str, prefix |-> prefix, text |-> text]

\* an element of scenarioResults; dict = FALSE: not a JSON object
ScenarioResultKinds ==
  { [dict |-> TRUE,  name |-> "s1", failed |-> FALSE, durationMillis |-> 250,
     stepResults |-> << StepResult(TRUE, TRUE, "Given", "url base"),
                        StepResult(TRUE, TRUE, "*", "def x = 1"),
                        StepResult(TRUE, TRUE, "When", "") >>],
    [dict |-> TRUE,  name |-> "s2", failed |-> TRUE,  durationMillis |-> 0,
     stepResults |-> << StepResult(TRUE, TRUE, " Then ", "status 200 "),
                        StepResult(TRUE, FALSE, "", ""),
                        StepResult(TRUE, TRUE, "Given", "url base") >>],
    [dict |-> TRUE,  name |-> "s3", failed |-> FALSE, durationMillis |-> 10,
     stepResults |-> << StepResult(TRUE, TRUE, "Given", "url base"),
                        StepResult(FALSE, FALSE, "", "") >>],
    [dict |-> FALSE, name |-> "",   failed |-> FALSE, durationMillis |-> 0,
     stepResults |-> <<>>] }

\* a row of an examples block.  dict = FALSE: the row is no JSON object;
\* mapping: its cells are a key -> value object, else a list of strings
\* (["a", "b"]), which no build of TestResult takes for a dict
Row(dict, mapping, cells) == [dict |-> dict, mapping |-> mapping, cells |-> cells]

ExamplesBlock(rows) == [rows |-> rows]

\* an element of a feature; status "": no explicit status
ElementKinds ==
  { [type |-> "scenario",   name |-> "e1", status |-> "", examples |-> <<>>,
     steps |-> << [status |-> "passed", duration |-> 1, error_message |-> ""] >>],
    [type |-> "Scenario",   name |-> "e2", status |-> "", examples |-> <<>>,
     steps |-> << [status |-> "passed", duration |-> 1, error_message |-> ""],
                  [status |-> "failed", duration |-> 2, error_message |-> "boom"] >>],
    [type |-> "scenario",   name |-> "e3", status |-> "passed", examples |-> <<>>,
     steps |-> <<>>],
    [type |-> "scenario",   name |-> "e4", status |-> "",
     examples |-> << ExamplesBlock(<< Row(TRUE, TRUE, "m1"), Row(FALSE, TRUE, "") >>),
                     ExamplesBlock(<< Row(TRUE, TRUE, "m2") >>) >>,
     steps |-> << [status |-> "passed", duration |-> 1, error_message |-> ""] >>],
    [type |-> "scenario",   name |-> "e5", status |-> "",
     examples |-> << ExamplesBlock(<< Row(TRUE, FALSE, "l1") >>) >>,
     steps |-> << [status |-> "passed", duration |-> 1, error_message |-> ""] >>],
    [type |-> "background", name |-> "bg", status |-> "", examples |-> <<>>,
     steps |-> <<>>] }

\* an item of featureSummary
SummaryKinds ==
  { [dict |-> TRUE,  name |-> "f1", failed |-> FALSE, durationMillis |-> 1500],
    [dict |-> TRUE,  name |-> "f2", failed |-> TRUE,  durationMillis |-> 0],
    [dict |-> FALSE, name |-> "",   failed |-> FALSE, durationMillis |-> 0] }

Feature(name, elements) == [name |-> name, elements |-> elements]

\* the lists of two features that hold n elements between them
FeatureLists(n) ==
  { << Feature("FA", SubSeq(e, 1, k)), Feature("FB", SubSeq(e, k + 1, n)) >> :
      e \in [1..n -> ElementKinds], k \in 0..n }

\* allScenarios: the key the combined artifact is written with (<<>>: absent)
Document(kind, items, sr, elements, features, fs) ==
  [kind |-> kind, name |-> "F", items |-> items, sr |-> sr, elements |-> elements,
   features |-> features, fs |-> fs, allScenarios |-> <<>>]

Listing(islist, items) == [islist |-> islist, items |-> items]

OptListing(K, n) ==
  { << Listing(TRUE, l) >> : l \in [1..n -> K] }
    \cup (IF n = 0 THEN { <<>>, << Listing(FALSE, <<>>) >> } ELSE {})

OptElements(n) ==
  { << e >> : e \in [1..n -> ElementKinds] } \cup (IF n = 0 THEN { <<>> } ELSE {})

OptFeatures(n) ==
  { << f >> : f \in FeatureLists(n) } \cup (IF n = 0 THEN { <<>> } ELSE {})

Sizes == { t \in [1..4 -> 0..MaxItems] : t[1] + t[2] + t[3] + t[4] <= MaxItems }

\* the per-feature detail files combine_karate_results.py reads: two files
\* that hold n scenarioResults objects between them
FeatureFiles(n) ==
  { << [name |-> "FA", scenarioResults |-> SubSeq(e, 1, k)],
       [name |-> "FB", scenarioResults |-> SubSeq(e, k + 1, n)] >> :
      e \in [1..n -> { s \in ScenarioResultKinds : s.dict }], k \in 0..n }

\* combine_karate_results.py 46-48: scenario['featureName'] = feature_name
TagScenarios(file) ==
  [n \in 1..Len(file.scenarioResults) |->
     [dict |-> TRUE, name |-> file.scenarioResults[n].name,
      failed |-> file.scenarioResults[n].failed,
      durationMillis |-> file.scenarioResults[n].durationMillis,
      stepResults |-> file.scenarioResults[n].stepResults,
      featureName |-> file.name]]

RECURSIVE AllScenarios(_)
AllScenarios(files) ==
  IF files = <<>> THEN <<>> ELSE TagScenarios(Head(files)) \o AllScenarios(Tail(files))

\* combine_karate_results.py 39-58: the combined karate.json,
\* {"allScenarios": [...]} and no other key
combine_karate_results(files) ==
  [Document("dict", <<>>, <<>>, <<>>, <<>>, <<>>)
     EXCEPT !.allScenarios = << Listing(TRUE, AllScenarios(files)) >>]

\* the artifacts with at most MaxItems scenarios and summary items in all
Documents ==
  { Document(k, <<>>, <<>>, <<>>, <<>>, <<>>) : k \in { "missing", "invalid", "falsy", "scalar" } }
    \cup UNION { { Document("list", f, <<>>, <<>>, <<>>, <<>>) : f \in FeatureLists(n) } :
                 n \in 0..MaxItems }
    \cup UNION { { Document("dict", <<>>, sr, el, fe, fs) :
                     sr \in OptListing(ScenarioResultKinds, t[1]), el \in OptElements(t[2]),
                     fe \in OptFeatures(t[3]), fs \in OptListing(SummaryKinds, t[4]) } :
                 t \in Sizes }
    \cup UNION { { combine_karate_results(f) : f \in FeatureFiles(n) } : n \in 0..MaxItems }

NoDocument == Document("missing", <<>>, <<>>, <<>>, <<>>, <<>>)

\* a duration in seconds, as the quotient the code computes
Seconds(num, den) == [num |-> num, den |-> den]

ParsedResult(feature, scenario, status, duration) ==
  [feature |-> feature, scenario |-> scenario, status |-> status, duration |-> duration]

\* a Result of the detailed format, with the steps rebuilt from stepResults
DetailedResult(feature, scenario, status, duration, gherkin_steps) ==
  [feature |-> feature, scenario |-> scenario, status |-> status, duration |-> duration,
   gherkin_steps |-> gherkin_steps]

\* str.strip(), on the texts the steps of the model are written with
Strip(s) ==
  CASE s = " Then "      -> "Then"
    [] s = "status 200 " -> "status 200"
    [] OTHER             -> s

\* a step line that keeps Karate's '*'
GherkinLine_KeepStar(prefix, text) ==
  IF prefix # "" /\ text # "" THEN << prefix \o " " \o text >> ELSE <<>>

\* karate_parser.py 249-254: the line of one step, none when the prefix or
\* the text is empty; '*' reads 'Given'
GherkinLine(prefix, text) ==
  LET prefix1 == IF prefix = "*" THEN "Given" ELSE prefix
  IN  IF prefix1 # "" /\ text # "" THEN << prefix1 \o " " \o text >> ELSE <<>>

\* karate_parser.py _extract_gherkin_steps_from_result: an entry that is no
\* object is passed over; strip() of a prefix or text that is no string
\* raises, and the except returns the lines collected before it
RECURSIVE extract_gherkin_steps_from_result(_)
extract_gherkin_steps_from_result(step_results) ==
  IF step_results = <<>>
    THEN <<>>
    ELSE LET step_result == Head(step_results) IN
         IF ~step_result.dict
           THEN extract_gherkin_steps_from_result(Tail(step_results))
           ELSE IF ~step_result.str
             THEN <<>>
             ELSE GherkinLine(Strip(step_result.prefix), Strip(step_result.text))
                    \o extract_gherkin_steps_from_result(Tail(step_results))

\* karate_parser.py _parse_scenario_result: <<>> is None (the element
\* raised: it is no object, or TestResult(steps=...) rejects a stepResults
\* entry that is no object)
parse_scenario_result(scenario, feature_name) ==
  IF ~scenario.dict
    THEN <<>>
    ELSE IF \E k \in 1..Len(scenario.stepResults) : ~scenario.stepResults[k].dict
      THEN <<>>
      ELSE << DetailedResult(feature_name, scenario.name,
                             IF scenario.failed THEN "failed" ELSE "passed",
                             Seconds(scenario.durationMillis, 1000),
                             extract_gherkin_steps_from_result(scenario.stepResults)) >>

\* karate_parser.py 121-124: the Results of the scenarioResults elements
RECURSIVE ScenarioResults(_, _)
ScenarioResults(scenario_results, feature_name) ==
  IF scenario_results = <<>>
    THEN <<>>
    ELSE parse_scenario_result(Head(scenario_results), feature_name)
           \o ScenarioResults(Tail(scenario_results), feature_name)

RECURSIVE SumDuration(_)
SumDuration(steps) ==
  IF steps = <<>> THEN 0 ELSE Head(steps).duration + SumDuration(Tail(steps))

\* a Result of the feature/elements format; error_message "" is None
FeatureResult(feature, scenario, status, duration, error_message, examples) ==
  [feature |-> feature, scenario |-> scenario, status |-> status, duration |-> duration,
   error_message |-> error_message, examples |-> examples]

\* karate_parser.py 349-357: the error message of the first failed step
RECURSIVE FirstError(_)
FirstError(steps) ==
  IF steps = <<>> THEN ""
  ELSE IF Head(steps).status = "failed" THEN Head(steps).error_message
  ELSE FirstError(Tail(steps))

\* karate_parser.py 490-494: the rows of one examples block
RowsOf(rows) ==
  LET kept == SelectSeq(rows, LAMBDA row : row.dict)
  IN  [n \in 1..Len(kept) |-> [mapping |-> kept[n].mapping, cells |-> kept[n].cells]]

\* karate_parser.py _extract_examples: the cells of every row of every block
RECURSIVE extract_examples(_)
extract_examples(scenario_examples) ==
  IF scenario_examples = <<>>
    THEN <<>>
    ELSE RowsOf(Head(scenario_examples).rows) \o extract_examples(Tail(scenario_examples))

\* state.py 16: examples: List[dict]; TestResult(...) raises on cells that
\* are no mapping
ExamplesValid(examples) == \A n \in 1..Len(examples) : examples[n].mapping

\* karate_parser.py 295-378: the loop of _parse_feature_data from element i on.
\* steps is the function's local variable: <<>> while unbound, << s >> once
\* an element without explicit status has bound it.  Reading it unbound
\* raises (UnboundLocalError), and so does TestResult(...) on examples it
\* does not accept.
RECURSIVE ParseElements(_, _, _, _, _)
ParseElements(feature_name, elements, i, steps, acc) ==
  IF i > Len(elements)
    THEN [results |-> acc, raised |-> FALSE]
    ELSE LET scenario == elements[i] IN
         IF scenario.type \notin { "scenario", "Scenario" }
           THEN ParseElements(feature_name, elements, i + 1, steps, acc)
           ELSE LET steps1 == IF scenario.status = "" THEN << scenario.steps >> ELSE steps
                    failed_steps ==
                      Cardinality({ k \in 1..Len(scenario.steps) :
                                      scenario.steps[k].status = "failed" })
                    scenario_status ==
                      IF scenario.status = ""
                        THEN (IF failed_steps = 0 THEN "passed" ELSE "failed")
                        ELSE scenario.status
                    status == IF scenario_status = "passed" THEN "passed" ELSE "failed"
                    examples == extract_examples(scenario.examples)
                IN  IF steps1 = <<>> \/ ~ExamplesValid(examples)
                      THEN [results |-> acc, raised |-> TRUE]
                      ELSE ParseElements(feature_name, elements, i + 1, steps1,
                             Append(acc, FeatureResult(feature_name, scenario.name, status,
                                      Seconds(SumDuration(steps1[1]), 1000000000),
                                      IF status = "failed" THEN FirstError(steps1[1])
                                                           ELSE "",
                                      examples)))

\* karate_parser.py _parse_feature_data
parse_feature_data(feature) == ParseElements(feature.name, feature.elements, 1, <<>>, <<>>)

\* karate_parser.py 142-143: results.extend(...) over the features; a
\* feature that raises ends the parse with what was collected before it
RECURSIVE ParseFeatures(_, _)
ParseFeatures(features, acc) ==
  IF features = <<>>
    THEN [results |-> acc, raised |-> FALSE]
    ELSE LET one == parse_feature_data(Head(features)) IN
         IF one.raised
           THEN [results |-> acc, raised |-> TRUE]
           ELSE ParseFeatures(Tail(features), acc \o one.results)

\* karate_parser.py 155-172: one Result per summary item; an item that is
\* not an object raises and ends the parse with what was collected before it
RECURSIVE SummaryResults(_, _)
SummaryResults(feature_summary, acc) ==
  IF feature_summary = <<>>
    THEN acc
    ELSE LET feature_item == Head(feature_summary) IN
         IF ~feature_item.dict
           THEN acc
           ELSE SummaryResults(Tail(feature_summary),
                  Append(acc, ParsedResult(feature_item.name, feature_item.name,
                                IF ~feature_item.failed THEN "passed" ELSE "failed",
                                Seconds(feature_item.durationMillis, 1000))))

\* karate_parser.py 131-138: the features of the older format
FeaturesOf(data) ==
  IF data.kind = "list" THEN data.items
  ELSE IF data.kind = "dict"
    THEN IF data.elements # <<>> THEN << Feature(data.name, data.elements[1]) >>
         ELSE IF data.features # <<>> THEN data.features[1]
         ELSE <<>>
  ELSE <<>>

\* karate_parser.py 114-128: the detailed format
DetailedStage(data) ==
  IF data.kind = "dict" /\ data.sr # <<>> /\ data.sr[1].islist
    THEN ScenarioResults(data.sr[1].items, data.name)
    ELSE <<>>

\* karate_parser.py 140-147: the feature/elements format
FeatureStage(data) == ParseFeatures(FeaturesOf(data), <<>>)

\* karate_parser.py 150-176: the summary fallback; a featureSummary that is
\* no list raises before any Result is built
SummaryStage(data) ==
  IF data.kind = "dict" /\ data.fs # <<>> /\ data.fs[1].islist
    THEN SummaryResults(data.fs[1].items, <<>>)
    ELSE <<>>

\* a parser that tries the summary before the detailed format
parse_karate_json_SummaryFirst(d) ==
  IF d.kind \in { "missing", "invalid", "falsy" }
    THEN <<>>
    ELSE IF SummaryStage(d) # <<>> THEN SummaryStage(d)
    ELSE IF DetailedStage(d) # <<>> THEN DetailedStage(d)
    ELSE FeatureStage(d).results

\* a parser that reports an artifact it cannot read as one failed Result
parse_karate_json_Placeholder(d) ==
  IF d.kind \in { "missing", "invalid", "falsy" }
    THEN <<>>
    ELSE IF DetailedStage(d) # <<>> THEN DetailedStage(d)
    ELSE IF FeatureStage(d).raised \/ FeatureStage(d).results # <<>>
           THEN FeatureStage(d).results
    ELSE IF SummaryStage(d) # <<>> THEN SummaryStage(d)
    ELSE << ParsedResult("Unknown Feature", "Unknown Feature", "failed", Seconds(0, 1000)) >>

\* karate_parser.py parse_karate_json: the first stage with a Result wins;
\* an exception is caught and what was collected so far is returned
parse_karate_json(data) ==
  IF data.kind \in { "missing", "invalid", "falsy" }
    THEN <<>>
    ELSE IF DetailedStage(data) # <<>> THEN DetailedStage(data)
    ELSE IF FeatureStage(data).raised \/ FeatureStage(data).results # <<>>
           THEN FeatureStage(data).results
    ELSE SummaryStage(data)

\* ------------------------------------------------------- the REST client
\* Every client method wraps its request in try/except: a failed request is
\* returned as [] / None / False, never raised.  ok = the request succeeded.

\* a connection check that reports success whatever the answer
check_connection_Optimistic(ok) == TRUE

\* testrail_client.py check_connection
check_connection(ok) == ok

\* testrail_client.py get_sections: the listing, [] on a failed request
get_sections(ok, registry_sections) == IF ok THEN registry_sections ELSE <<>>

\* testrail_client.py get_cases: the listing, [] on a failed request
get_cases(ok, registry_cases) == IF ok THEN registry_cases ELSE <<>>

\* testrail_client.py get_tests: the run's tests, [] on a failed request
get_tests(ok, run) == IF ok THEN run.tests ELSE <<>>

\* testrail_client.py get_results_for_run: stored results, [] on a failed request
get_results_for_run(ok, run) == IF ok THEN run.results ELSE <<>>

\* ------------------------------------------------------------ the registry
\* What the remote endpoints do to the registry when a request succeeds.

Min(S) == CHOOSE x \in S : \A y \in S : x <= y

RECURSIVE SortedSeq(_)
SortedSeq(S) == IF S = {} THEN <<>> ELSE <<Min(S)>> \o SortedSeq(S \ {Min(S)})

\* POST add_case/{section_id}: a new case with a fresh id
RegistryAddCase(cs, section_id, case_data) ==
  Append(cs, [id                   |-> Len(cs) + 1,
              section_id           |-> section_id,
              title                |-> case_data.title,
              type_id              |-> case_data.type_id,
              custom_automation_id |-> case_data.custom_automation_id,
              description          |-> case_data.description,
              custom_preconds      |-> case_data.custom_preconds,
              custom_steps         |-> case_data.custom_steps,
              custom_expected      |-> case_data.custom_expected,
              priority_id          |-> case_data.priority_id,
              custom_feature       |-> case_data.custom_feature,
              custom_status_actual |-> case_data.custom_status_actual])

\* an update that keeps the steps a case already has
RegistryUpdateCase_KeepSteps(cs, case_id, data) ==
  [i \in 1..Len(cs) |->
     IF cs[i].id = case_id
       THEN [f \in DOMAIN cs[i] |->
               IF f \in DOMAIN data /\ f # "custom_steps" THEN data[f] ELSE cs[i][f]]
       ELSE cs[i]]

\* POST update_case/{case_id}: the fields sent replace the stored ones
RegistryUpdateCase(cs, case_id, data) ==
  [i \in 1..Len(cs) |->
     IF cs[i].id = case_id
       THEN [f \in DOMAIN cs[i] |-> IF f \in DOMAIN data THEN data[f] ELSE cs[i][f]]
       ELSE cs[i]]

\* POST add_run/{project_id}: a run with one test per selected case
RegistryAddRun(rs, cs, run_payload) ==
  LET run_id   == Len(rs) + 1
      all      == { cs[i].id : i \in 1..Len(cs) }
      selected == SortedSeq(IF run_payload.include_all
                              THEN all
                              ELSE all \cap run_payload.case_ids)
  IN  Append(rs, [id          |-> run_id,
                  include_all |-> run_payload.include_all,
                  case_ids    |-> run_payload.case_ids,
                  tests       |-> [k \in 1..Len(selected) |->
                                     [id |-> 10 * run_id + k, case_id |-> selected[k]]],
                  results     |-> <<>>,
                  attachments |-> 0,
                  is_completed |-> FALSE])

\* POST add_results/{run_id}: the whole batch is stored
RegistryAddResults(rs, run_id, payload) ==
  [i \in 1..Len(rs) |->
     IF rs[i].id = run_id THEN [rs[i] EXCEPT !.results = @ \o payload] ELSE rs[i]]

\* POST add_attachment_to_run/{run_id}
RegistryAddAttachment(rs, run_id) ==
  [i \in 1..Len(rs) |->
     IF rs[i].id = run_id THEN [rs[i] EXCEPT !.attachments = @ + 1] ELSE rs[i]]

\* --------------------------------------------------------------- the sync
\* testrail_sync.py _find_case_by_automation_id: the first case of the
\* listing whose custom field equals the id; <<>> is None
find_case_by_automation_id(listing, automation_id) ==
  LET hits == { i \in 1..Len(listing) :
                  listing[i].custom_automation_id = automation_id }
  IN  IF hits = {} THEN <<>> ELSE << listing[Min(hits)] >>

\* a sync that falls back on section 1 when the suite lists none
ResolveSection_Default(listing) == IF listing = <<>> THEN 1 ELSE listing[1]

\* testrail_sync.py 195-203: the first section of the listing, None (0)
\* when the listing is empty
ResolveSection(listing) == IF listing = <<>> THEN 0 ELSE listing[1]

\* testrail_sync.py _get_automated_type_id: the id of the registry's
\* 'Automated' case type, None (0) when the request fails
get_automated_type_id(ok) == IF ok THEN 3 ELSE 0

\* the keywords of _infer_priority
CriticalWords ==
  { <<"c", "r", "i", "t", "i", "c", "a", "l">>,
    <<"s", "m", "o", "k", "e">>,
    <<"p", "0">>,
    <<"b", "l", "o", "c", "k", "e", "r">>,
    <<"s", "e", "c", "u", "r", "i", "t", "y">> }

HighWords ==
  { <<"i", "m", "p", "o", "r", "t", "a", "n", "t">>,
    <<"m", "a", "i", "n">>,
    <<"c", "o", "r", "e">>,
    <<"p", "1">>,
    <<"a", "u", "t", "h">> }

LowWords ==
  { <<"e", "d", "g", "e">>,
    <<"n", "e", "g", "a", "t", "i", "v", "e">>,
    <<"e", "r", "r", "o", "r">>,
    <<"p", "3">>,
    <<"o", "p", "t", "i", "o", "n", "a", "l">> }

\* testrail_sync.py _infer_priority: the keywords are looked for in
\* scenario.lower() + feature.lower(), joined without a separator
infer_priority(result) ==
  LET text == Lower(result.scenario) \o Lower(result.feature)
  IN  IF \E x \in CriticalWords : IsSubstring(x, text) THEN 5
      ELSE IF \E x \in HighWords : IsSubstring(x, text) THEN 4
      ELSE IF \E x \in LowWords : IsSubstring(x, text) THEN 2
      ELSE 3

\* The four texts of a case are renderings of the Result alone; each is kept
\* as the parts of the Result it renders.
\* testrail_sync.py _build_description
build_description(result) ==
  [feature |-> result.feature, scenario |-> result.scenario, status |-> result.status,
   gherkin |-> Len(result.gherkin_steps), background |-> result.background_steps]

\* testrail_sync.py _build_preconditions
build_preconditions(result) ==
  IF result.background_steps # <<>>
    THEN [header |-> "Prerequisites", items |-> result.background_steps]
    ELSE [header |-> "Prerequisites",
          items  |-> << "Background/Prerequisites not extracted from feature file" >>]

\* testrail_sync.py _build_steps
build_steps(result) ==
  IF result.gherkin_steps # <<>>
    THEN [header |-> "Test Steps", items |-> result.gherkin_steps]
    ELSE [header |-> "Test Steps", items |-> << "Setup", "Execute", "Verify", "Validate" >>]

\* testrail_sync.py MarkdownFormatter.status_badge, on the statuses of the model
status_badge(status) ==
  CASE status = "passed"  -> "PASSED"
    [] status = "failed"  -> "FAILED"
    [] status = "skipped" -> "SKIPPED"
    [] OTHER              -> "? " \o status

\* testrail_sync.py _clean_assertion, on the assertions of the model
clean_assertion(assertion) ==
  CASE assertion = "Then status 200"  -> "HTTP Status -> 200"
    [] assertion = "And match x == 1" -> "x must equal 1"
    [] OTHER                          -> assertion

\* testrail_sync.py 509-527: one numbered line per expected assertion
ValidationLines(result) ==
  [n \in 1..Len(result.expected_assertions) |->
     [block |-> "assertion", n |-> n,
      verdict |-> IF result.status = "passed" THEN "PASS" ELSE "FAIL",
      text |-> clean_assertion(result.expected_assertions[n])]]

\* testrail_sync.py 541-571: the metadata footer
MetadataFooter(result) ==
  [block |-> "footer", feature |-> result.feature, status |-> status_badge(result.status),
   gherkin |-> Len(result.gherkin_steps),
   passed |-> IF result.status = "passed" THEN Len(result.expected_assertions) ELSE 0,
   total |-> Len(result.expected_assertions)]

\* testrail_sync.py _build_expected_result: the blocks of the text in their
\* order; the headers and rules between them are left out
build_expected_result(result) ==
  << [block |-> "banner", status |-> status_badge(result.status)] >>
    \o ValidationLines(result)
    \o (IF result.error_message # ""
          THEN << [block |-> "error", text |-> result.error_message] >>
          ELSE <<>>)
    \o << MetadataFooter(result) >>

\* testrail_sync.py _build_case_data
build_case_data(result, automation_id, title, automated_type_id) ==
  [title                |-> title,
   type_id              |-> automated_type_id,
   custom_automation_id |-> automation_id,
   description          |-> build_description(result),
   custom_preconds      |-> build_preconditions(result),
   custom_steps         |-> build_steps(result),
   custom_expected      |-> build_expected_result(result),
   priority_id          |-> infer_priority(result),
   custom_feature       |-> result.feature,
   custom_status_actual |-> result.status]

\* case_map[automation_id] = case_id
MapPut(case_map, automation_id, case_id) ==
  [a \in DOMAIN case_map \cup {automation_id} |->
     IF a = automation_id THEN case_id ELSE case_map[a]]

\* dict.get(key): 0 stands for None
MapGet(m, key) == IF key \in DOMAIN m THEN m[key] ELSE 0

EmptyMap == [a \in {} |-> 0]

\* list(case_id_map.values()), as the set of ids the registry selects by
Range2(m) == { m[a] : a \in DOMAIN m }

\* One request, as the log keeps it: the invocation of main that sent it,
\* the endpoint, whether it succeeded, the index of the Result it was sent
\* for (0: none), the case or run id it names or returns (0: none), which
\* payload it carries, and the automation id it was sent for (<<>>: none)
Call(invocation, op, ok, idx, id, what) ==
  [inv |-> invocation, op |-> op, ok |-> ok, idx |-> idx, id |-> id, what |-> what,
   key |-> <<>>]

CallFor(invocation, op, ok, idx, id, what, automation_id) ==
  [inv |-> invocation, op |-> op, ok |-> ok, idx |-> idx, id |-> id, what |-> what,
   key |-> automation_id]

\* testrail_sync.py 219-222: an existing case is updated; it enters the map
\* only when update_case returned a payload
SyncUpdate(result, i, existing_case, case_data, write_ok, cmap, cs, invocation) ==
  LET case_id == existing_case[1].id
  IN  [cases    |-> IF write_ok THEN RegistryUpdateCase(cs, case_id, case_data) ELSE cs,
       case_map |-> IF write_ok
                      THEN MapPut(cmap, case_data.custom_automation_id, case_id)
                      ELSE cmap,
       calls    |-> << CallFor(invocation, "update_case", write_ok, i, case_id, "case_data",
                               case_data.custom_automation_id) >>]

\* testrail_sync.py 224-246: no case found; a case is added when a section
\* was resolved, then the fields add_case ignores are sent by update_case
SyncCreate(result, i, case_data, write_ok, follow_ok, cmap, cs, section_id, automated_type_id, invocation) ==
  IF section_id # 0
    THEN IF write_ok
           THEN LET cs1     == RegistryAddCase(cs, section_id, case_data)
                    case_id == cs1[Len(cs1)].id
                    update_data == IF automated_type_id # 0
                                     THEN << [type_id |-> automated_type_id] >>
                                     ELSE <<>>
                IN  [cases    |-> IF update_data # <<>> /\ follow_ok
                                    THEN RegistryUpdateCase(cs1, case_id, update_data[1])
                                    ELSE cs1,
                     case_map |-> MapPut(cmap, case_data.custom_automation_id, case_id),
                     calls    |-> << CallFor(invocation, "add_case", TRUE, i, case_id, "case_data",
                                            case_data.custom_automation_id) >>
                                  \o (IF update_data # <<>>
                                        THEN << CallFor(invocation, "update_case", follow_ok,
                                                        i, case_id, "update_data",
                                                        case_data.custom_automation_id) >>
                                        ELSE <<>>)]
           ELSE [cases |-> cs, case_map |-> cmap,
                 calls |-> << CallFor(invocation, "add_case", FALSE, i, 0, "case_data",
                                  case_data.custom_automation_id) >>]
    ELSE [cases |-> cs, case_map |-> cmap, calls |-> <<>>]

\* testrail_sync.py 205-246: the body of the loop for the i-th Result
SyncOne(result, i, get_ok, write_ok, follow_ok, cmap, cs, section_id, automated_type_id, invocation) ==
  LET automation_id == SyncAutomationId(result)
      title         == SyncTitle(result)
      existing_case == find_case_by_automation_id(get_cases(get_ok, cs), automation_id)
      case_data     == build_case_data(result, automation_id, title, automated_type_id)
      looked        == << CallFor(invocation, "get_cases", get_ok, i, 0, "", automation_id) >>
      done          == IF existing_case # <<>>
                         THEN SyncUpdate(result, i, existing_case, case_data, write_ok,
                                         cmap, cs, invocation)
                         ELSE SyncCreate(result, i, case_data, write_ok, follow_ok, cmap,
                                         cs, section_id, automated_type_id, invocation)
  IN  [cases |-> done.cases, case_map |-> done.case_map, calls |-> looked \o done.calls]

FailedCalls(calls) == Cardinality({ j \in 1..Len(calls) : ~calls[j].ok })

\* a loop that gives up at the first failed request
NextResult_StopOnFailure(i, n, calls) ==
  IF \E j \in 1..Len(calls) : ~calls[j].ok THEN n + 1 ELSE i + 1

\* testrail_sync.py 205: the index of the Result the loop takes after the
\* i-th of n, whatever became of the requests sent for the i-th
NextResult(i, n, calls) == i + 1

\* ------------------------------------------------------------- the runner
\* a runner that resolves the case by the feature alone
RunnerAutomationId_FeatureOnly(r) == r.feature

\* testrail_runner.py 71-77: the automation id submit_results looks up
RunnerAutomationId(r) ==
  IF r.feature = r.scenario
    THEN r.feature
    ELSE LET scenario_clean == IF Contains(r.scenario, ".")
                                 THEN SplitFirst(r.scenario, ".")
                                 ELSE r.scenario
         IN  r.feature \o <<".">> \o scenario_clean

\* a table that knows 'skipped' and takes anything else for a failure
status_id_UnknownFails(status) ==
  IF status = "passed" THEN 1
  ELSE IF status = "skipped" THEN 3
  ELSE 5

\* testrail_runner.py 90-96: the registry's status vocabulary
status_id(status) ==
  IF status = "passed" THEN 1
  ELSE IF status = "failed" THEN 5
  ELSE 3

Max(S) == CHOOSE x \in S : \A y \in S : x >= y

\* a lookup that takes the first test of the run, whatever its case
TestIdGet_FirstTest(tests_in_run, case_id) ==
  IF tests_in_run = <<>> THEN 0 ELSE tests_in_run[1].id

\* testrail_runner.py 62-65, 85: test_id_map.get(case_id); a later test of
\* the listing replaces an earlier one with the same case_id; 0 is None
TestIdGet(tests_in_run, case_id) ==
  LET hits == { k \in 1..Len(tests_in_run) : tests_in_run[k].case_id = case_id }
  IN  IF hits = {} THEN 0 ELSE tests_in_run[Max(hits)].id

\* testrail_runner.py 101: result.error_message or f"Test {result.status}"
Comment(result) ==
  IF result.error_message # "" THEN result.error_message ELSE "Test " \o result.status

\* a lookup that finds the ids of summary-mode Results only
CaseIdGet_SummaryOnly(case_id_map, automation_id) ==
  IF Contains(automation_id, ".") THEN 0 ELSE MapGet(case_id_map, automation_id)

\* testrail_runner.py 79: case_id_map.get(automation_id)
CaseIdGet(case_id_map, automation_id) == MapGet(case_id_map, automation_id)

\* testrail_runner.py 69-104: results_payload, built from the i-th Result on.
\* The fields result (the index of the Result an entry was built from) and
\* case_id (the case it was resolved to) are not sent.
RECURSIVE ResultsPayload(_, _, _, _)
ResultsPayload(test_results, i, case_id_map, tests_in_run) ==
  IF i > Len(test_results)
    THEN <<>>
    ELSE LET result  == test_results[i]
             case_id == CaseIdGet(case_id_map, RunnerAutomationId(result))
             test_id == IF case_id = 0 THEN 0 ELSE TestIdGet(tests_in_run, case_id)
             rest    == ResultsPayload(test_results, i + 1, case_id_map, tests_in_run)
         IN  IF case_id = 0 \/ test_id = 0
               THEN rest
               ELSE << [test_id |-> test_id, status_id |-> status_id(result.status),
                        comment |-> Comment(result),
                        result |-> i, case_id |-> case_id] >> \o rest

\* a run over the whole suite
RunPayload_IncludeAll(case_ids) == [include_all |-> TRUE, case_ids |-> case_ids]

\* testrail_runner.py 27-33: the payload of add_run
RunPayload(case_ids) == [include_all |-> FALSE, case_ids |-> case_ids]

\* a submission that sends one request per entry
SubmitOutcome_PerResult(results_payload, batch_ok, invocation, run) ==
  [calls   |-> [k \in 1..Len(results_payload) |->
                 Call(invocation, "add_results", batch_ok, 0, run, "result")],
   success |-> batch_ok /\ results_payload # <<>>,
   stored  |-> IF batch_ok THEN results_payload ELSE <<>>]

\* testrail_runner.py 106-118: one batch request when there is something to
\* send; True only when that request succeeded
SubmitOutcome(results_payload, batch_ok, invocation, run) ==
  IF results_payload # <<>>
    THEN [calls   |-> << Call(invocation, "add_results", batch_ok, 0, run, "batch") >>,
          success |-> batch_ok,
          stored  |-> IF batch_ok THEN results_payload ELSE <<>>]
    ELSE [calls |-> <<>>, success |-> FALSE, stored |-> <<>>]

\* a pipeline that stops when the submission was not successful
AfterSubmit_AbortOnFailure(submitted) == IF submitted THEN "attach" ELSE "aborted"

\* main.py 234-243: whatever submit_results returned, main goes on to the
\* attachment
AfterSubmit(submitted) == "attach"

\* a pipeline that goes on to the attachment without a run
AfterCreateRun_GoOn(created) == "attach"

\* main.py 222-224: without a run id main returns
AfterCreateRun(created) == IF created # 0 THEN "submit" ELSE "aborted"

RunById(rs, id) == rs[CHOOSE i \in 1..Len(rs) : rs[i].id = id]

CountStatus(stored, code) == Cardinality({ k \in 1..Len(stored) : stored[k].status_id = code })

\* testrail_runner.py 150, 191: test_to_case.get(test_id, 'unknown'); 0 is
\* 'unknown'
TestToCase(tests, test_id) ==
  LET hits == { k \in 1..Len(tests) : tests[k].id = test_id }
  IN  IF hits = {} THEN 0 ELSE tests[Max(hits)].case_id

\* testrail_runner.py 187-193: one line per read-back result with status 5
RECURSIVE FailedLines(_, _)
FailedLines(stored, tests) ==
  IF stored = <<>>
    THEN <<>>
    ELSE (IF Head(stored).status_id = 5
            THEN << [case_id |-> TestToCase(tests, Head(stored).test_id),
                     comment |-> Head(stored).comment] >>
            ELSE <<>>)
         \o FailedLines(Tail(stored), tests)

\* testrail_runner.py 132-207: the counts and the failed-test lines of the
\* report
generate_run_report(run_ok, tests_ok, results_ok, run) ==
  IF ~run_ok
    THEN [passed |-> 0, failed |-> 0, skipped |-> 0, total |-> 0, failed_lines |-> <<>>]
    ELSE LET tests  == get_tests(tests_ok, run)
             stored == get_results_for_run(results_ok, run)
         IN  [passed  |-> CountStatus(stored, 1),
              failed  |-> CountStatus(stored, 5),
              skipped |-> CountStatus(stored, 3),
              total   |-> Len(stored),
              failed_lines |-> FailedLines(stored, tests)]

NoReport ==
  [passed |-> 0 - 1, failed |-> 0 - 1, skipped |-> 0 - 1, total |-> 0 - 1,
   failed_lines |-> <<>>]

VARIABLES
  results,            \* the parsed Results handed to the pipeline
  pc,                 \* main's position
  inv,                \* number of the current invocation of main
  sections,           \* registry: section ids of the configured suite
  cases,              \* registry: the cases of the suite, in listing order
  runs,               \* registry: the runs
  automated_type_id,  \* TestRailSync.automated_type_id (0: None)
  section_id,         \* sync_cases_from_karate's section_id (0: None)
  idx,                \* index of the Result the sync loop is at
  case_map,           \* sync_cases_from_karate's case_map / main's case_id_map
  run_id,             \* main's run_id (0: None)
  failures,           \* failed requests so far
  payload,            \* submit_results' results_payload
  success,            \* what submit_results returned to main
  report,             \* what generate_run_report returned (NoReport: not yet)
  log,                \* every request sent to the registry, in order
  maps,               \* the map each completed sync returned, by invocation
  data,               \* the artifact handed to parse_karate_json
  parsed,             \* what parse_karate_json returned
  ppc,                \* the parser's position
  wpc,                \* concurrent syncs: the position of each
  widx,               \* concurrent syncs: the index of the Result each is at
  wfound,             \* concurrent syncs: each one's existing_case
  wmap,               \* concurrent syncs: each one's case_map
  subject,            \* the Result handed to _infer_priority or to a builder
  priority,           \* what _infer_priority returned (0: not called yet)
  expected,           \* what _build_expected_result returned (<<>>: not called yet)
  saved               \* main's analytics stage in this invocation (<<>>: not reached)

vars == <<results, pc, inv, sections, cases, runs, automated_type_id, section_id,
          idx, case_map, run_id, failures, payload, success, report, log, maps,
          data, parsed, ppc, wpc, widx, wfound, wmap, subject, priority, expected, saved>>

registry == <<sections, cases, runs>>

parser == <<data, parsed, ppc>>

conc == <<wpc, widx, wfound, wmap>>

classifier == <<subject, priority, expected>>

\* no concurrent sync is running
ConcIdle ==
  /\ wpc = <<>>
  /\ widx = <<>>
  /\ wfound = <<>>
  /\ wmap = <<>>

\* neither _infer_priority nor a builder is being called
ClassifierIdle ==
  /\ subject = Result(<<>>, <<>>, "", "", <<>>, <<>>, <<>>)
  /\ priority = 0
  /\ expected = <<>>

\* The Results of one artifact are taken pairwise different; two Results of
\* one list still share an automation id (scenarios 'g' and 'g.1').
Init ==
  /\ results \in { s \in SeqsUpTo(TestResult, MaxResults) :
                     \A i, j \in DOMAIN s : s[i] = s[j] => i = j }
  /\ pc = "parsed"
  /\ inv = 1
  /\ sections \in { <<>>, <<1>> }
  /\ cases = <<>>
  /\ runs = <<>>
  /\ automated_type_id = 0
  /\ section_id = 0
  /\ idx = 0
  /\ case_map = EmptyMap
  /\ run_id = 0
  /\ failures = 0
  /\ payload = <<>>
  /\ success = FALSE
  /\ report = NoReport
  /\ log = <<>>
  /\ maps = <<>>
  /\ data = NoDocument
  /\ parsed = <<>>
  /\ ppc = "idle"
  /\ ConcIdle
  /\ saved = <<>>
  /\ ClassifierIdle

\* main.py 161-163: nothing parsed, nothing to do
NoResults ==
  /\ pc = "parsed"
  /\ results = <<>>
  /\ pc' = "done"
  /\ UNCHANGED <<results, inv, registry, automated_type_id, section_id, idx,
                 case_map, run_id, failures, payload, success, report, log, maps, parser, conc, classifier, saved>>

\* main.py 170-181
CheckConnection ==
  /\ pc = "parsed"
  /\ results # <<>>
  /\ \E ok \in BOOLEAN :
       /\ ~ok => failures < MaxFailures
       /\ failures' = IF ok THEN failures ELSE failures + 1
       /\ log' = Append(log, Call(inv, "get_projects", ok, 0, 0, ""))
       /\ pc' = IF check_connection(ok) THEN "sync" ELSE "aborted"
  /\ UNCHANGED <<results, inv, registry, automated_type_id, section_id, idx,
                 case_map, run_id, payload, success, report, maps, parser, conc, classifier, saved>>

\* main.py 188-192 and testrail_sync.py 103-110, 195-203: the TestRailSync is
\* built (it asks for the 'Automated' case type) and the section is resolved
SyncStart ==
  /\ pc = "sync"
  /\ idx = 0
  /\ \E types_ok \in BOOLEAN, sections_ok \in BOOLEAN :
       LET listing == get_sections(sections_ok, sections)
           calls   == << Call(inv, "get_case_types", types_ok, 0, 0, ""),
                         Call(inv, "get_sections", sections_ok, 0, 0, "") >>
       IN  /\ failures + FailedCalls(calls) <= MaxFailures
           /\ failures' = failures + FailedCalls(calls)
           /\ automated_type_id' = get_automated_type_id(types_ok)
           /\ section_id' = ResolveSection(listing)
           /\ log' = log \o calls
  /\ case_map' = EmptyMap
  /\ idx' = 1
  /\ UNCHANGED <<results, pc, inv, registry, run_id, payload, success, report, maps, parser, conc, classifier, saved>>

\* testrail_sync.py 205-246: one pass of the loop
SyncResult ==
  /\ pc = "sync"
  /\ idx \in 1..Len(results)
  /\ \E get_ok \in BOOLEAN, write_ok \in BOOLEAN, follow_ok \in BOOLEAN :
       LET out == SyncOne(results[idx], idx, get_ok, write_ok, follow_ok, case_map,
                          cases, section_id, automated_type_id, inv)
       IN  /\ failures + FailedCalls(out.calls) <= MaxFailures
           /\ failures' = failures + FailedCalls(out.calls)
           /\ cases' = out.cases
           /\ case_map' = out.case_map
           /\ log' = log \o out.calls
           /\ idx' = NextResult(idx, Len(results), out.calls)
  /\ UNCHANGED <<results, pc, inv, sections, runs, automated_type_id, section_id,
                 run_id, payload, success, report, maps, parser, conc, classifier, saved>>

\* testrail_sync.py 248 and main.py 193-194: the map is returned to main
SyncReturn ==
  /\ pc = "sync"
  /\ idx > Len(results)
  /\ maps' = Append(maps, [inv |-> inv, map |-> case_map])
  /\ pc' = "create_run"
  /\ UNCHANGED <<results, inv, registry, automated_type_id, section_id, idx,
                 case_map, run_id, failures, payload, success, report, log, parser, conc, classifier, saved>>

\* main.py 201-229 and testrail_runner.py 18-41
CreateRun ==
  /\ pc = "create_run"
  /\ \E ok \in BOOLEAN :
       LET case_ids == Range2(case_map)
           rs1      == RegistryAddRun(runs, cases, RunPayload(case_ids))
           created  == rs1[Len(rs1)].id
       IN  /\ ~ok => failures < MaxFailures
           /\ failures' = IF ok THEN failures ELSE failures + 1
           /\ runs' = IF ok THEN rs1 ELSE runs
           /\ run_id' = IF ok THEN created ELSE 0
           /\ log' = Append(log, Call(inv, "add_run", ok, 0, IF ok THEN created ELSE 0, ""))
           /\ pc' = AfterCreateRun(IF ok THEN created ELSE 0)
  /\ UNCHANGED <<results, inv, sections, cases, automated_type_id, section_id, idx,
                 case_map, payload, success, report, maps, parser, conc, classifier, saved>>

\* main.py 231-241 and testrail_runner.py 43-118
SubmitResults ==
  /\ pc = "submit"
  /\ \E tests_ok \in BOOLEAN, batch_ok \in BOOLEAN :
       LET tests_in_run    == get_tests(tests_ok, RunById(runs, run_id))
           results_payload == ResultsPayload(results, 1, case_map, tests_in_run)
           out             == SubmitOutcome(results_payload, batch_ok, inv, run_id)
           calls           == << Call(inv, "get_tests", tests_ok, 0, run_id, "") >> \o out.calls
       IN  /\ failures + FailedCalls(calls) <= MaxFailures
           /\ failures' = failures + FailedCalls(calls)
           /\ payload' = results_payload
           /\ success' = out.success
           /\ runs' = RegistryAddResults(runs, run_id, out.stored)
           /\ log' = log \o calls
           /\ pc' = AfterSubmit(out.success)
  /\ UNCHANGED <<results, inv, sections, cases, automated_type_id, section_id, idx,
                 case_map, run_id, report, maps, parser, conc, classifier, saved>>

\* main.py 243-250 and testrail_runner.py 120-130
AttachArtifact ==
  /\ pc = "attach"
  /\ \E ok \in BOOLEAN :
       /\ ~ok => failures < MaxFailures
       /\ failures' = IF ok THEN failures ELSE failures + 1
       /\ runs' = IF ok THEN RegistryAddAttachment(runs, run_id) ELSE runs
       /\ log' = Append(log, Call(inv, "add_attachment_to_run", ok, 0, run_id, ""))
  /\ pc' = "report"
  /\ UNCHANGED <<results, inv, sections, cases, automated_type_id, section_id, idx,
                 case_map, run_id, payload, success, report, maps, parser, conc, classifier, saved>>

\* main.py 263-274 and testrail_runner.py 132-207
GenerateReport ==
  /\ pc = "report"
  /\ \E run_ok \in BOOLEAN, tests_ok \in BOOLEAN, results_ok \in BOOLEAN :
       LET calls == << Call(inv, "get_run", run_ok, 0, run_id, "") >>
                    \o (IF run_ok
                          THEN << Call(inv, "get_tests", tests_ok, 0, run_id, "report"),
                                  Call(inv, "get_results_for_run", results_ok, 0, run_id, "") >>
                          ELSE <<>>)
       IN  /\ failures + FailedCalls(calls) <= MaxFailures
           /\ failures' = failures + FailedCalls(calls)
           /\ report' = generate_run_report(run_ok, tests_ok, results_ok,
                                            RunById(runs, run_id))
           /\ log' = log \o calls
  /\ pc' = "done"
  /\ UNCHANGED <<results, inv, registry, automated_type_id, section_id, idx,
                 case_map, run_id, payload, success, maps, parser, conc, classifier, saved>>

\* main.py 375: testrail_case_id=case_id_map.get(f"{result.feature}.{result.scenario}");
\* 0 is None
MongoCaseId(case_id_map, result) ==
  MapGet(case_id_map, result.feature \o <<".">> \o result.scenario)

\* main.py 367-376: the save_test_result calls, one per Result
SaveCalls(test_results, case_id_map) ==
  [i \in 1..Len(test_results) |->
     [result |-> i, testrail_case_id |-> MongoCaseId(case_id_map, test_results[i])]]

\* main.py 337-376: the analytics stage, reached once a run was created;
\* nothing is saved when the store is not enabled
SaveTestResults ==
  /\ pc = "done"
  /\ run_id # 0
  /\ saved = <<>>
  /\ \E enabled \in BOOLEAN :
       saved' = << [enabled |-> enabled,
                    docs |-> IF enabled THEN SaveCalls(results, case_map) ELSE <<>>] >>
  /\ UNCHANGED <<results, pc, inv, registry, automated_type_id, section_id, idx, case_map,
                 run_id, failures, payload, success, report, log, maps, parser, conc,
                 classifier>>

\* main is invoked again on the same artifact: a new process, the same registry
Restart ==
  /\ pc \in { "done", "aborted" }
  /\ (pc = "done" /\ run_id # 0) => saved # <<>>
  /\ results # <<>>
  /\ inv < MaxInvocations
  /\ inv' = inv + 1
  /\ pc' = "parsed"
  /\ automated_type_id' = 0
  /\ section_id' = 0
  /\ idx' = 0
  /\ case_map' = EmptyMap
  /\ run_id' = 0
  /\ payload' = <<>>
  /\ success' = FALSE
  /\ report' = NoReport
  /\ saved' = <<>>
  /\ UNCHANGED <<results, registry, failures, log, maps, parser, conc, classifier>>

Next ==
  \/ NoResults
  \/ CheckConnection
  \/ SyncStart
  \/ SyncResult
  \/ SyncReturn
  \/ CreateRun
  \/ SubmitResults
  \/ AttachArtifact
  \/ GenerateReport
  \/ SaveTestResults
  \/ Restart

Spec == Init /\ [][Next]_vars

\* ================================================================ claims
LogIdx == 1..Len(log)

MutatingOps ==
  { "add_case", "update_case", "add_run", "add_results", "add_attachment_to_run" }

\* feature + "." + scenario, the scenario taken whole
DottedName(r) == r.feature \o <<".">> \o r.scenario

\* c is the text of s before its first '.', or s itself when it has none
IsFirstSegment(c, s) ==
  \E n \in 0..Len(s) :
    /\ c = SubSeq(s, 1, n)
    /\ \A k \in 1..n : s[k] # "."
    /\ n = Len(s) \/ s[n + 1] = "."

\* the requests of invocation k of main that decided the case of Result i
CaseWrites(k, i) ==
  { j \in LogIdx : log[j].inv = k /\ log[j].idx = i /\ log[j].what = "case_data" }

SyncReturned(k) == \E m \in 1..Len(maps) : maps[m].inv = k

ReturnedMap(k) == maps[CHOOSE m \in 1..Len(maps) : maps[m].inv = k].map

SyncOps == { "get_case_types", "get_sections", "get_cases", "add_case", "update_case" }

\* C1: running the sync twice on the same Results, with no other writer, sends
\* no add_case during the second run, and both runs return the same map.
\* Stated for a first run none of whose requests failed, so that whatever
\* the first run could create exists when the second run starts.
C1_SecondSyncAddsNothing ==
  ( /\ SyncReturned(1)
    /\ \A j \in LogIdx : (log[j].inv = 1 /\ log[j].op \in SyncOps) => log[j].ok )
  => /\ \A j \in LogIdx : log[j].op = "add_case" => log[j].inv = 1
     /\ \A m \in 1..Len(maps) : maps[m].map = maps[1].map

\* C2 as stated: the automation id sync looks a case up by, and the one
\* submit_results resolves a case by, is feature + "." + scenario for every
\* Result with feature # scenario (also when the scenario has a '.'), and
\* feature for a Result with feature = scenario.
C2_IdIsFeatureDotScenario ==
  /\ \A j \in LogIdx :
       log[j].op = "get_cases" =>
         LET r == results[log[j].idx]
         IN  log[j].key = IF r.feature = r.scenario THEN r.feature ELSE DottedName(r)
  /\ \A e \in 1..Len(payload) :
       LET r == results[payload[e].result]
       IN  payload[e].case_id =
             MapGet(case_map, IF r.feature = r.scenario THEN r.feature ELSE DottedName(r))

\* C2 amended: for a Result with feature # scenario the automation id is
\* feature + "." + the scenario cut at its first '.', which is feature + "." +
\* scenario exactly when the scenario has no '.'; with feature = scenario it
\* is feature.  sync and submit_results use the same id.
C2_IdIsFeatureDotFirstSegment ==
  /\ \A j \in LogIdx :
       log[j].op = "get_cases" =>
         LET r == results[log[j].idx]
         IN  IF r.feature = r.scenario
               THEN log[j].key = r.feature
               ELSE \E c \in { SubSeq(r.scenario, 1, n) : n \in 0..Len(r.scenario) } :
                      /\ IsFirstSegment(c, r.scenario)
                      /\ log[j].key = r.feature \o <<".">> \o c
  /\ \A e \in 1..Len(payload) :
       LET r == results[payload[e].result]
       IN  \E j \in LogIdx :
             /\ log[j].op = "get_cases"
             /\ log[j].inv = inv
             /\ log[j].idx = payload[e].result
             /\ payload[e].case_id = MapGet(case_map, log[j].key)

C2_Witness ==
  \E e \in 1..Len(payload) :
    /\ Contains(results[payload[e].result].scenario, ".")
    /\ \E j \in LogIdx : log[j].op = "add_case" /\ log[j].ok /\ log[j].idx = payload[e].result

\* C3: when a sync created the case of a Result, a later sync of a Result
\* with the same (feature, scenario) sends update_case for that case id and
\* no add_case.
C3_SecondSyncUpdatesSameCase ==
  \A a \in LogIdx, g \in LogIdx :
    ( /\ log[a].op = "add_case" /\ log[a].ok
      /\ log[g].op = "get_cases" /\ log[g].inv > log[a].inv
      /\ results[log[g].idx].feature = results[log[a].idx].feature
      /\ results[log[g].idx].scenario = results[log[a].idx].scenario )
    => /\ \E u \in CaseWrites(log[g].inv, log[g].idx) :
            log[u].op = "update_case" /\ log[u].id = log[a].id
       /\ \A u \in CaseWrites(log[g].inv, log[g].idx) : log[u].op # "add_case"

\* C4 as stated: a sync always returns after going through every Result, and
\* its map has an entry for each Result whose add_case/update_case succeeded
\* and none for a Result for which such a request failed.
C4_FailedResultHasNoEntry ==
  \A k \in 1..inv :
    SyncReturned(k) =>
      \A i \in 1..Len(results) :
        /\ \E j \in LogIdx : log[j].op = "get_cases" /\ log[j].inv = k /\ log[j].idx = i
        /\ (\E j \in LogIdx :
              /\ log[j].inv = k /\ log[j].idx = i /\ ~log[j].ok
              /\ log[j].op \in { "add_case", "update_case" })
             => SyncAutomationId(results[i]) \notin DOMAIN ReturnedMap(k)
        /\ (\E j \in CaseWrites(k, i) : log[j].ok)
             => SyncAutomationId(results[i]) \in DOMAIN ReturnedMap(k)

\* C4 amended: a sync always returns after going through every Result,
\* whatever failed; its map has an entry for exactly the automation ids for
\* which the add_case or the full update_case of some Result succeeded, with
\* the case id of the last such request.  A Result whose request failed adds
\* no entry, but an entry made by another Result with the same automation id
\* stays, and so does the entry of a created case whose follow-up field
\* update failed.
C4_MapHoldsTheSucceededWrites ==
  \A k \in 1..inv :
    SyncReturned(k) =>
      /\ \A i \in 1..Len(results) :
           \E j \in LogIdx : log[j].op = "get_cases" /\ log[j].inv = k /\ log[j].idx = i
      /\ LET won == { j \in LogIdx : log[j].inv = k /\ log[j].what = "case_data" /\ log[j].ok }
         IN  /\ DOMAIN ReturnedMap(k) = { log[j].key : j \in won }
             /\ \A j \in won :
                  (\A j2 \in won : log[j2].key = log[j].key => j2 <= j)
                    => ReturnedMap(k)[log[j].key] = log[j].id

C4_Witness ==
  /\ SyncReturned(1)
  /\ Len(results) = 2
  /\ \E j \in CaseWrites(1, 1) : ~log[j].ok
  /\ \E j \in CaseWrites(1, 2) : log[j].ok
  /\ DOMAIN ReturnedMap(1) = { SyncAutomationId(results[2]) }
  /\ SyncAutomationId(results[1]) # SyncAutomationId(results[2])

\* C5: the status code of every submitted entry is 1 for a 'passed' Result,
\* 5 for a 'failed' one and 3 for any other status, and submit_results sends
\* the registry nothing but its one get_tests and its batch to work it out.
C5_StatusCodeTable ==
  /\ \A e \in 1..Len(payload) :
       LET st == results[payload[e].result].status
       IN  /\ st = "passed" => payload[e].status_id = 1
           /\ st = "failed" => payload[e].status_id = 5
           /\ st \notin { "passed", "failed" } => payload[e].status_id = 3
  /\ \A j \in LogIdx :
       (log[j].op = "get_tests" /\ log[j].what = "" /\ j < Len(log))
         => log[j + 1].op \in { "add_results", "add_attachment_to_run" }

C5_Witness ==
  /\ success
  /\ \E e \in 1..Len(payload) : results[payload[e].result].status = "undefined"
  /\ \E e \in 1..Len(payload) : results[payload[e].result].status = "skipped"

\* C8: no mutating request is ever sent in an invocation whose connection
\* check failed, and every mutating request follows a successful connection
\* check of its invocation.
C8_NoMutationWithoutConnection ==
  /\ \A j \in LogIdx :
       log[j].op \in MutatingOps =>
         \E i \in 1..(j - 1) :
           log[i].op = "get_projects" /\ log[i].ok /\ log[i].inv = log[j].inv
  /\ \A i \in LogIdx :
       (log[i].op = "get_projects" /\ ~log[i].ok) =>
         \A j \in LogIdx : log[j].inv = log[i].inv => log[j].op \notin MutatingOps
  /\ (log # <<>> /\ log[Len(log)].op = "get_projects" /\ ~log[Len(log)].ok
        /\ log[Len(log)].inv = inv)
       => pc = "aborted"

C8_Witness ==
  /\ inv = 2
  /\ pc = "aborted"
  /\ log[Len(log)].op = "get_projects"
  /\ \E j \in LogIdx : log[j].inv = 1 /\ log[j].op = "add_results"

\* C9: the batch is sent only after the sync of the same invocation returned
\* its map and after the run was created, and every entry of the batch was
\* built from a Result whose automation id is a key of that map.
C9_SubmitOnlyWhatSyncResolved ==
  /\ \A j \in LogIdx :
       log[j].op = "add_results" =>
         /\ SyncReturned(log[j].inv)
         /\ \E r \in 1..(j - 1) :
              /\ log[r].op = "add_run" /\ log[r].ok
              /\ log[r].inv = log[j].inv /\ log[r].id = log[j].id
         /\ \A q \in LogIdx :
              (log[q].inv = log[j].inv /\ log[q].op \in SyncOps \cup { "add_run" }) => q < j
  /\ run_id # 0 => ReturnedMap(inv) = case_map
  /\ \A e \in 1..Len(payload) :
       LET automation_id == SyncAutomationId(results[payload[e].result])
       IN  /\ automation_id \in DOMAIN case_map
           /\ case_map[automation_id] = payload[e].case_id

C9_Witness ==
  /\ success
  /\ Len(results) = 2
  /\ Len(payload) = 1
  /\ \E i \in 1..2 : SyncAutomationId(results[i]) \notin DOMAIN case_map

\* C10: submit_results sends at most one add_results request, a batch, never
\* one per Result; it returns True exactly when that one request succeeded,
\* and a failed batch leaves the run without any result.
C10_OneBatchAllOrNothing ==
  /\ \A k \in 1..inv :
       Cardinality({ j \in LogIdx : log[j].op = "add_results" /\ log[j].inv = k }) <= 1
  /\ \A j \in LogIdx : log[j].op = "add_results" => log[j].what = "batch"
  /\ (pc \in { "attach", "report", "done" } /\ run_id # 0) =>
       /\ success <=> \E j \in LogIdx :
                        log[j].op = "add_results" /\ log[j].inv = inv /\ log[j].ok
       /\ ~success => RunById(runs, run_id).results = <<>>
       /\ success => RunById(runs, run_id).results = payload

C10_Witness ==
  /\ pc = "attach"
  /\ ~success
  /\ Len(payload) = 2
  /\ \E j \in LogIdx : log[j].op = "add_results" /\ log[j].inv = inv /\ ~log[j].ok

\* the listing get_tests handed to submit_results in the current invocation
TestsListed ==
  IF \E j \in LogIdx : /\ log[j].op = "get_tests" /\ log[j].what = ""
                       /\ log[j].inv = inv /\ log[j].ok
    THEN RunById(runs, run_id).tests
    ELSE <<>>

\* the Results submit_results can resolve: the automation id has a case in
\* the map and that case has a test in the listing
Resolvable ==
  { i \in 1..Len(results) :
      /\ SyncAutomationId(results[i]) \in DOMAIN case_map
      /\ \E t \in 1..Len(TestsListed) :
           TestsListed[t].case_id = case_map[SyncAutomationId(results[i])] }

\* C11: submit_results skips a Result without a case in the map or without a
\* test in the listing, and the payload holds, in the order of the Results,
\* exactly one entry (test_id, status_id, comment) for each other Result,
\* its test_id being the test of the run that stands for the mapped case.
C11_PayloadIsTheResolvableResults ==
  (pc \in { "attach", "report", "done" } /\ run_id # 0) =>
    /\ { payload[e].result : e \in 1..Len(payload) } = Resolvable
    /\ Len(payload) = Cardinality(Resolvable)
    /\ \A e, f \in 1..Len(payload) : e < f => payload[e].result < payload[f].result
    /\ \A e \in 1..Len(payload) :
         LET r == results[payload[e].result]
         IN  /\ \E t \in 1..Len(TestsListed) :
                  /\ TestsListed[t].id = payload[e].test_id
                  /\ TestsListed[t].case_id = case_map[SyncAutomationId(r)]
             /\ payload[e].status_id \in { 1, 3, 5 }
             /\ payload[e].comment =
                  (IF r.error_message = "" THEN "Test " \o r.status ELSE r.error_message)

C11_Witness ==
  /\ pc = "attach"
  /\ Len(results) = 2
  /\ Len(payload) = 1
  /\ payload[1].result = 2
  /\ payload[1].comment = "status 500"
  /\ Cardinality({ runs[i].id : i \in 1..Len(runs) }) = 2

\* C12: every run the pipeline creates has include_all = false, its case ids
\* are exactly the case ids of the map the sync of the same invocation
\* returned, each of them a case that sync wrote in that invocation, and the
\* run has tests for those cases only.
C12_RunIsTheSyncedCases ==
  \A j \in LogIdx :
    (log[j].op = "add_run" /\ log[j].ok) =>
      LET run == RunById(runs, log[j].id)
          k   == log[j].inv
      IN  /\ run.include_all = FALSE
          /\ SyncReturned(k)
          /\ run.case_ids = Range2(ReturnedMap(k))
          /\ \A c \in run.case_ids :
               \E w \in LogIdx :
                 /\ log[w].inv = k /\ log[w].ok /\ w < j
                 /\ log[w].op \in { "add_case", "update_case" } /\ log[w].id = c
          /\ { run.tests[t].case_id : t \in 1..Len(run.tests) } = run.case_ids

C12_Witness ==
  \E i \in 1..Len(runs) :
    /\ runs[i].case_ids # {}
    /\ \E c \in 1..Len(cases) : cases[c].id \notin runs[i].case_ids
    /\ Len(runs[i].tests) = Cardinality(runs[i].case_ids)

\* the invocations whose sync got no section: the suite has none, or the
\* get_sections request failed
NoSection(k) ==
  \E j \in LogIdx :
    /\ log[j].op = "get_sections" /\ log[j].inv = k
    /\ (~log[j].ok \/ sections = <<>>)

LastResultFor(a) ==
  results[CHOOSE i \in 1..Len(results) :
            /\ SyncAutomationId(results[i]) = a
            /\ \A j \in (i + 1)..Len(results) : SyncAutomationId(results[j]) # a]

MirroredFields ==
  { "title", "description", "custom_preconds", "custom_steps", "custom_expected",
    "priority_id", "custom_feature" }

\* C14: after a sync all of whose requests succeeded, the case of every
\* entry of the map holds the title, description, preconditions, steps,
\* expected result, priority and feature built from the last Result of the
\* list with that automation id, whatever the case held before.
C14_CaseMirrorsLastResult ==
  ( /\ pc \in { "create_run", "submit", "attach", "report", "done" }
    /\ SyncReturned(inv)
    /\ \A j \in LogIdx : (log[j].inv = inv /\ log[j].op \in SyncOps) => log[j].ok )
  => \A a \in DOMAIN case_map :
       \E c \in 1..Len(cases) :
         /\ cases[c].id = case_map[a]
         /\ LET r    == LastResultFor(a)
                built == build_case_data(r, a, SyncTitle(r), automated_type_id)
            IN  \A f \in MirroredFields : cases[c][f] = built[f]

C14_Witness ==
  /\ pc = "create_run"
  /\ \A j \in LogIdx : log[j].ok
  /\ Len(results) = 2
  /\ SyncAutomationId(results[1]) = SyncAutomationId(results[2])
  /\ build_steps(results[1]) # build_steps(results[2])
  /\ \E j \in LogIdx : log[j].op = "update_case" /\ log[j].what = "case_data" /\ log[j].idx = 2
  /\ Len(cases) = 1
  /\ cases[1].custom_steps = build_steps(results[2])

\* the batch of the current invocation was sent and failed
BatchFailed ==
  \E j \in LogIdx : log[j].op = "add_results" /\ log[j].inv = inv /\ ~log[j].ok

\* C15: when the batch fails, submit_results returns False, main goes on to
\* the attachment and to the report, and no request ever closes, deletes or
\* changes a run: every run stays open.
C15_FailedBatchLeavesRunOpen ==
  /\ BatchFailed =>
       /\ ~success
       /\ pc \in { "attach", "report", "done" }
       /\ pc \in { "report", "done" } =>
            \E j \in LogIdx : log[j].op = "add_attachment_to_run" /\ log[j].inv = inv
       /\ pc = "done" =>
            /\ \E j \in LogIdx : log[j].op = "get_run" /\ log[j].inv = inv
            /\ report # NoReport
  /\ \A j \in LogIdx : log[j].op \notin { "close_run", "delete_run", "update_run" }
  /\ \A i \in 1..Len(runs) : ~runs[i].is_completed

C15_Witness ==
  /\ BatchFailed
  /\ pc = "done"
  /\ RunById(runs, run_id).attachments = 1
  /\ report.total = 0

\* the requests that follow the creation of the run
RunOps == { "get_tests", "add_results", "add_attachment_to_run", "get_run",
            "get_results_for_run" }

\* C24: when add_run fails, create_run_from_build returns no run id and the
\* pipeline aborts: no get_tests, add_results, add_attachment_to_run or
\* report request follows in that invocation, nor any other request.
C24_NoRunNoSubmission ==
  \A j \in LogIdx :
    (log[j].op = "add_run" /\ ~log[j].ok) =>
      /\ \A k \in LogIdx :
           (k > j /\ log[k].inv = log[j].inv) => log[k].op \notin RunOps
      /\ \A k \in LogIdx : k > j => log[k].inv > log[j].inv
      /\ log[j].inv = inv => (pc = "aborted" /\ run_id = 0 /\ report = NoReport)

\* the first invocation lost its add_run; the second has submitted its batch
C24_Witness ==
  /\ \E j \in LogIdx : log[j].op = "add_run" /\ ~log[j].ok /\ log[j].inv = 1
  /\ inv = 2
  /\ \E k \in LogIdx : log[k].op = "add_results" /\ log[k].inv = 2

\* C26: whatever syncs one pipeline has run, one after the other, and
\* whichever of their get_cases requests failed, the registry holds at most
\* one case per automation id.
C26_RegistryHasOneCasePerId ==
  \A c1, c2 \in 1..Len(cases) :
    cases[c1].custom_automation_id = cases[c2].custom_automation_id => c1 = c2

\* the automation id sync looked the case of Result i up by, in invocation k
SyncKeys(k, i) ==
  { log[j].key : j \in { n \in LogIdx : log[n].op = "get_cases" /\ log[n].inv = k
                                          /\ log[n].idx = i } }

\* every Result of the list had a case written for it in invocation k
AllSynced(k) ==
  /\ SyncReturned(k)
  /\ \A i \in 1..Len(results) : \E j \in CaseWrites(k, i) : log[j].ok

\* the scenario name up to its first '.'
CleanedName(r) ==
  CHOOSE c \in { SubSeq(r.scenario, 1, n) : n \in 0..Len(r.scenario) } :
    IsFirstSegment(c, r.scenario)

MappedBySync ==
  { i \in 1..Len(results) : \E a \in SyncKeys(inv, i) : a \in DOMAIN case_map }

\* C28: submit_results computes for every Result the automation id sync
\* computed for it, so a Result whose id sync put in the map is resolved to
\* the case the map holds for it; a Result is left out for want of a case
\* id only when sync did not map it.
C28_SubmitFindsWhatSyncMapped ==
  /\ \A r \in TestResult : RunnerAutomationId(r) = SyncAutomationId(r)
  /\ (pc \in { "attach", "report", "done" } /\ run_id # 0) =>
       /\ \A e \in 1..Len(payload) :
            /\ payload[e].result \in MappedBySync
            /\ \A a \in SyncKeys(inv, payload[e].result) : payload[e].case_id = case_map[a]
       /\ \A i \in MappedBySync :
            \/ \E e \in 1..Len(payload) : payload[e].result = i
            \/ \A a \in SyncKeys(inv, i) :
                 \A t \in 1..Len(TestsListed) : TestsListed[t].case_id # case_map[a]

\* a Result with a '.' in its scenario name, mapped by sync and submitted
C28_Witness ==
  /\ pc = "attach"
  /\ success
  /\ \E e \in 1..Len(payload) :
       /\ Contains(results[payload[e].result].scenario, ".")
       /\ payload[e].result \in MappedBySync
  /\ \E i \in 1..Len(results) : i \notin MappedBySync

\* the Results of the list that sync looked up by automation id a in the
\* first invocation, when the registry held no case
SharedBy(a) == { i \in 1..Len(results) : a \in SyncKeys(1, i) }

\* C29: in one sync on a registry without a matching case, Results that
\* share an automation id cause exactly one add_case for it (one that is
\* carried out: a request the registry refused created nothing); each later
\* one finds the case just created and sends update_case for it, and the map
\* ends with that one case id.
C29_OneAddThenUpdates ==
  (inv = 1 /\ SyncReturned(1) /\ section_id # 0) =>
    \A a \in UNION { SyncKeys(1, i) : i \in 1..Len(results) } :
      Cardinality(SharedBy(a)) >= 2 =>
        LET adds == { j \in LogIdx : log[j].inv = 1 /\ log[j].op = "add_case"
                                      /\ log[j].key = a /\ log[j].ok }
        IN  /\ Cardinality(adds) <= 1
            /\ \A j \in adds :
                 /\ \A i \in SharedBy(a) :
                      i > log[j].idx =>
                        \E u \in CaseWrites(1, i) :
                          log[u].op = "update_case" /\ log[u].id = log[j].id
                 /\ a \in DOMAIN ReturnedMap(1)
                 /\ ReturnedMap(1)[a] = log[j].id
            /\ Cardinality({ c \in 1..Len(cases) : cases[c].custom_automation_id = a }) <= 1

\* C30: for every Result whose automation id is a key of the map sync
\* returned, the case id handed to the analytics store with that Result is
\* the id the map holds for it, summary-mode Results included.
C30_StoredCaseIdIsTheMapped ==
  \A s \in 1..Len(saved) :
    \A d \in 1..Len(saved[s].docs) :
      \A a \in SyncKeys(inv, saved[s].docs[d].result) :
        a \in DOMAIN case_map => saved[s].docs[d].testrail_case_id = case_map[a]

\* the results the registry holds for the run of the current invocation
StoredResults == RunById(runs, run_id).results

\* C16: the counts of the report are those of the results stored for the
\* run (status 1, 5, 3 and their number), with one failed line per stored
\* result of status 5; so after a successful submission of k entries to the
\* fresh run the report has total = k and the counts of the submitted
\* statuses, and after a failed submission total = 0.
C16_ReportCountsWhatWasStored ==
  (pc = "done" /\ run_id # 0) =>
    /\ report.total = Len(StoredResults)
    /\ report.passed = CountStatus(StoredResults, 1)
    /\ report.failed = CountStatus(StoredResults, 5)
    /\ report.skipped = CountStatus(StoredResults, 3)
    /\ Len(report.failed_lines) = CountStatus(StoredResults, 5)
    /\ success =>
         /\ report.total = Len(payload)
         /\ report.passed =
              Cardinality({ e \in 1..Len(payload) : results[payload[e].result].status = "passed" })
         /\ report.failed =
              Cardinality({ e \in 1..Len(payload) : results[payload[e].result].status = "failed" })
    /\ ~success => report.total = 0

\* a run without tests and results, as a successful request would list it
EmptyRun == [tests |-> <<>>, results |-> <<>>]

\* C17: what a client operation returns for a failed request differs from
\* what it returns for a successful one; a failed get_cases, get_sections
\* or get_tests is not the empty listing of a successful request.
C17_FailureIsNotAnEmptyListing ==
  \A j \in LogIdx :
    ~log[j].ok =>
      /\ log[j].op = "get_cases" => get_cases(log[j].ok, cases) # get_cases(TRUE, <<>>)
      /\ log[j].op = "get_sections" =>
           get_sections(log[j].ok, sections) # get_sections(TRUE, <<>>)
      /\ log[j].op = "get_tests" =>
           get_tests(log[j].ok, RunById(runs, log[j].id)) # get_tests(TRUE, EmptyRun)
      /\ log[j].op = "get_results_for_run" =>
           get_results_for_run(log[j].ok, RunById(runs, log[j].id))
             # get_results_for_run(TRUE, EmptyRun)

\* ---------------------------------------------------- the parser, alone
ParseInit ==
  /\ data \in Documents
  /\ parsed = <<>>
  /\ ppc = "artifact"
  /\ results = <<>>
  /\ pc = "parsing"
  /\ inv = 1
  /\ sections = <<>>
  /\ cases = <<>>
  /\ runs = <<>>
  /\ automated_type_id = 0
  /\ section_id = 0
  /\ idx = 0
  /\ case_map = EmptyMap
  /\ run_id = 0
  /\ failures = 0
  /\ payload = <<>>
  /\ success = FALSE
  /\ report = NoReport
  /\ log = <<>>
  /\ maps = <<>>
  /\ ConcIdle
  /\ saved = <<>>
  /\ ClassifierIdle

\* main.py 151-159: parser.parse_karate_json(karate_json_path)
ParseKarateJson ==
  /\ ppc = "artifact"
  /\ parsed' = parse_karate_json(data)
  /\ ppc' = "returned"
  /\ UNCHANGED <<data, results, pc, inv, registry, automated_type_id, section_id, idx,
                 case_map, run_id, failures, payload, success, report, log, maps,
                 conc, classifier, saved>>

ParseNext == ParseKarateJson

ParseSpec == ParseInit /\ [][ParseNext]_vars

\* the names of the well-formed elements of a listing
DictNames(listing) == { listing[j].name : j \in { n \in 1..Len(listing) : listing[n].dict } }

\* a scenarioResults element a Result can be built from: an object whose
\* stepResults entries are objects
WellFormed(scenario) ==
  /\ scenario.dict
  /\ \A k \in 1..Len(scenario.stepResults) : scenario.stepResults[k].dict

WellFormedNames(listing) == { listing[j].name : j \in { n \in 1..Len(listing) : WellFormed(listing[n]) } }

HasBothFormats ==
  /\ data.kind = "dict"
  /\ data.sr # <<>> /\ data.sr[1].islist
  /\ data.fs # <<>>

Unrecognised ==
  \/ data.kind \in { "missing", "invalid", "scalar", "falsy" }
  \/ /\ data.kind = "dict"
     /\ data.sr = <<>> /\ data.elements = <<>> /\ data.features = <<>> /\ data.fs = <<>>

\* C7: for an unrecognised top-level shape, a missing file or a file that is
\* not JSON, parse_karate_json returns the empty list.
C7_UnrecognisedYieldsNothing ==
  (ppc = "returned" /\ Unrecognised) => parsed = <<>>

C7_Witness ==
  /\ ppc = "returned"
  /\ data.kind = "dict"
  /\ Unrecognised

\* a document with a scenarioResults array
HasScenarioResults ==
  /\ data.kind = "dict"
  /\ data.sr # <<>> /\ data.sr[1].islist

\* the positions of the scenarioResults elements that are objects, in order
ObjectElements == SortedSeq({ n \in 1..Len(data.sr[1].items) : data.sr[1].items[n].dict })

\* the positions of the well-formed scenarioResults elements, in order
WellFormedElements ==
  SortedSeq({ n \in 1..Len(data.sr[1].items) : WellFormed(data.sr[1].items[n]) })

\* "<prefix> <text>" over the steps with a non-empty prefix and text, as written
StatedSteps(step_results) ==
  LET kept == SortedSeq({ k \in 1..Len(step_results) :
                            /\ step_results[k].dict /\ step_results[k].str
                            /\ step_results[k].prefix # "" /\ step_results[k].text # "" })
  IN  [n \in 1..Len(kept) |->
         (IF step_results[kept[n]].prefix = "*" THEN "Given" ELSE step_results[kept[n]].prefix)
           \o " " \o step_results[kept[n]].text]

\* the same over the trimmed prefix and text, up to the first step whose
\* prefix or text is no string
SalvagedSteps(step_results) ==
  LET broken == { k \in 1..Len(step_results) : step_results[k].dict /\ ~step_results[k].str }
      kept   == SortedSeq({ k \in 1..Len(step_results) :
                              /\ \A b \in broken : k < b
                              /\ step_results[k].dict
                              /\ Strip(step_results[k].prefix) # ""
                              /\ Strip(step_results[k].text) # "" })
  IN  [n \in 1..Len(kept) |->
         (IF Strip(step_results[kept[n]].prefix) = "*"
            THEN "Given" ELSE Strip(step_results[kept[n]].prefix))
           \o " " \o Strip(step_results[kept[n]].text)]

\* C20 as stated: for a document with a scenarioResults array the parser
\* returns one Result per element that is an object, in order, with feature
\* the document's name, scenario the element's name, status 'failed' iff
\* its failed flag is set and else 'passed', duration durationMillis / 1000,
\* and gherkin_steps the "<prefix> <text>" of the stepResults with non-empty
\* prefix and text, '*' read as 'Given'; the other elements are skipped.
C20_OneResultPerElement ==
  (ppc = "returned" /\ HasScenarioResults) =>
    /\ Len(parsed) = Len(ObjectElements)
    /\ \A i \in 1..Len(ObjectElements) :
         LET scenario == data.sr[1].items[ObjectElements[i]] IN
         parsed[i] = DetailedResult(data.name, scenario.name,
                                    IF scenario.failed THEN "failed" ELSE "passed",
                                    Seconds(scenario.durationMillis, 1000),
                                    StatedSteps(scenario.stepResults))

\* C20 amended: when at least one element of scenarioResults is well-formed
\* (an object whose stepResults entries are objects), the parser returns one
\* Result per well-formed element, in order, with feature, scenario, status
\* and duration as stated and gherkin_steps the "<prefix> <text>" of the
\* trimmed prefix and text of the steps where both are non-empty, '*' read
\* as 'Given', up to the first step whose prefix or text is no string; the
\* other elements are skipped.  When no element is well-formed the parser
\* returns what it returns for the document without scenarioResults.
C20_OneResultPerWellFormedElement ==
  (ppc = "returned" /\ HasScenarioResults) =>
    IF WellFormedElements # <<>>
      THEN /\ Len(parsed) = Len(WellFormedElements)
           /\ \A i \in 1..Len(WellFormedElements) :
                LET scenario == data.sr[1].items[WellFormedElements[i]] IN
                parsed[i] = DetailedResult(data.name, scenario.name,
                                           IF scenario.failed THEN "failed" ELSE "passed",
                                           Seconds(scenario.durationMillis, 1000),
                                           SalvagedSteps(scenario.stepResults))
      ELSE parsed = parse_karate_json([data EXCEPT !.sr = <<>>])

\* a malformed element before a well-formed one whose '*' step is rebuilt
C20_Witness ==
  /\ ppc = "returned"
  /\ HasScenarioResults
  /\ Len(data.sr[1].items) = 2
  /\ ~WellFormed(data.sr[1].items[1])
  /\ Len(parsed) = 1
  /\ parsed[1].scenario = "s1"
  /\ parsed[1].gherkin_steps = << "Given url base", "Given def x = 1" >>

\* a document the feature/elements format decides: a list of features
IsFeatureList == data.kind = "list"

\* the scenarios of the features of a list, as <<feature, element>> positions
ScenarioPositions ==
  { <<f, e>> \in (1..Len(data.items)) \X (1..MaxItems) :
      /\ e <= Len(data.items[f].elements)
      /\ data.items[f].elements[e].type \in { "scenario", "Scenario" } }

\* the Result an element yields when everything is taken from the element
OwnResult(feature, scenario) ==
  LET failed == \E k \in 1..Len(scenario.steps) : scenario.steps[k].status = "failed"
      status == IF scenario.status = ""
                  THEN (IF failed THEN "failed" ELSE "passed")
                  ELSE (IF scenario.status = "passed" THEN "passed" ELSE "failed")
  IN  FeatureResult(feature.name, scenario.name, status,
                    Seconds(SumDuration(scenario.steps), 1000000000),
                    IF status = "failed" THEN FirstError(scenario.steps) ELSE "",
                    extract_examples(scenario.examples))

\* C21: in the feature/elements format every element of type 'scenario' or
\* 'Scenario' yields exactly one Result, with or without an explicit
\* status; without one the status is 'failed' iff one of the element's own
\* steps failed, and the duration and the error message are those of the
\* element's own steps.
C21_OneResultPerScenarioElement ==
  (ppc = "returned" /\ IsFeatureList) =>
    /\ Len(parsed) = Cardinality(ScenarioPositions)
    /\ \A p \in ScenarioPositions :
         \E i \in 1..Len(parsed) :
           parsed[i] = OwnResult(data.items[p[1]], data.items[p[1]].elements[p[2]])

\* the artifact is the combined karate.json
IsCombined == data.kind = "dict" /\ data.allScenarios # <<>>

\* C25: for the combined karate.json (the scenarioResults of all features
\* under the key allScenarios) parse_karate_json returns one Result per
\* combined scenario, of the feature the scenario came from.
C25_CombinedScenariosAreParsed ==
  (ppc = "returned" /\ IsCombined) =>
    /\ Len(parsed) = Len(data.allScenarios[1].items)
    /\ \A i \in 1..Len(parsed) :
         /\ parsed[i].scenario = data.allScenarios[1].items[i].name
         /\ parsed[i].feature = data.allScenarios[1].items[i].featureName

\* the cells of the rows of the examples blocks of a scenario, in order
RowCells(scenario) ==
  LET cells == extract_examples(scenario.examples)
  IN  [n \in 1..Len(cells) |-> cells[n].cells]

\* C22: a feature/elements scenario that has examples blocks with rows
\* yields a Result whose examples are the cells of every row, in order and
\* unmodified.
C22_ExamplesAreTheRowCells ==
  (ppc = "returned" /\ IsFeatureList) =>
    \A p \in ScenarioPositions :
      LET feature  == data.items[p[1]]
          scenario == feature.elements[p[2]]
      IN  RowCells(scenario) # <<>> =>
            \E i \in 1..Len(parsed) :
              /\ parsed[i].feature = feature.name
              /\ parsed[i].scenario = scenario.name
              /\ [n \in 1..Len(parsed[i].examples) |-> parsed[i].examples[n].cells]
                   = RowCells(scenario)
\* ------------------------------------------------- two syncs at one time
\* MaxWorkers invocations of the pipeline run sync_cases_from_karate on the
\* same Results against the same suite; the registry serves one request at
\* a time, and no request fails.
Workers == 1..MaxWorkers

ConcInit ==
  /\ results \in { s \in SeqsUpTo(TestResult, MaxResults) :
                     s # <<>> /\ \A i, j \in DOMAIN s : s[i] = s[j] => i = j }
  /\ pc = "sync"
  /\ inv = 1
  /\ sections = <<1>>
  /\ cases = <<>>
  /\ runs = <<>>
  /\ automated_type_id \in { get_automated_type_id(ok) : ok \in BOOLEAN }
  /\ section_id = ResolveSection(get_sections(TRUE, <<1>>))
  /\ idx = 0
  /\ case_map = EmptyMap
  /\ run_id = 0
  /\ failures = 0
  /\ payload = <<>>
  /\ success = FALSE
  /\ report = NoReport
  /\ log = <<>>
  /\ maps = <<>>
  /\ data = NoDocument
  /\ parsed = <<>>
  /\ ppc = "idle"
  /\ wpc = [w \in Workers |-> "find"]
  /\ widx = [w \in Workers |-> 1]
  /\ wfound = [w \in Workers |-> <<>>]
  /\ wmap = [w \in Workers |-> EmptyMap]
  /\ ClassifierIdle
  /\ saved = <<>>

\* testrail_sync.py 215 and 256-266: the lookup, one get_cases request
WorkerFind(w) ==
  /\ wpc[w] = "find"
  /\ widx[w] <= Len(results)
  /\ LET automation_id == SyncAutomationId(results[widx[w]])
     IN  /\ wfound' = [wfound EXCEPT ![w] =
                         find_case_by_automation_id(get_cases(TRUE, cases), automation_id)]
         /\ log' = Append(log, CallFor(w, "get_cases", TRUE, widx[w], 0, "", automation_id))
  /\ wpc' = [wpc EXCEPT ![w] = "write"]
  /\ UNCHANGED <<results, pc, inv, registry, automated_type_id, section_id, idx, case_map,
                 run_id, failures, payload, success, report, maps, parser, widx, wmap,
                 classifier, saved>>

\* testrail_sync.py 218-227: the update_case or add_case request that
\* follows from what the lookup returned
WorkerWrite(w) ==
  /\ wpc[w] = "write"
  /\ LET result    == results[widx[w]]
         case_data == build_case_data(result, SyncAutomationId(result), SyncTitle(result),
                                      automated_type_id)
         out       == IF wfound[w] # <<>>
                        THEN SyncUpdate(result, widx[w], wfound[w], case_data, TRUE,
                                        wmap[w], cases, w)
                        ELSE SyncCreate(result, widx[w], case_data, TRUE, TRUE, wmap[w],
                                        cases, section_id, 0, w)
         follows   == wfound[w] = <<>> /\ automated_type_id # 0
     IN  /\ cases' = out.cases
         /\ wmap' = [wmap EXCEPT ![w] = out.case_map]
         /\ log' = log \o out.calls
         /\ wpc' = [wpc EXCEPT ![w] = IF follows THEN "follow" ELSE "find"]
         /\ widx' = [widx EXCEPT ![w] = IF follows THEN @ ELSE @ + 1]
  /\ UNCHANGED <<results, pc, inv, sections, runs, automated_type_id, section_id, idx,
                 case_map, run_id, failures, payload, success, report, maps, parser, wfound,
                 classifier, saved>>

\* testrail_sync.py 229-241: the update_case that sets the type of a case
\* just created
WorkerFollow(w) ==
  /\ wpc[w] = "follow"
  /\ LET automation_id == SyncAutomationId(results[widx[w]])
         case_id       == wmap[w][automation_id]
     IN  /\ cases' = RegistryUpdateCase(cases, case_id, [type_id |-> automated_type_id])
         /\ log' = Append(log, CallFor(w, "update_case", TRUE, widx[w], case_id,
                                       "update_data", automation_id))
  /\ wpc' = [wpc EXCEPT ![w] = "find"]
  /\ widx' = [widx EXCEPT ![w] = @ + 1]
  /\ UNCHANGED <<results, pc, inv, sections, runs, automated_type_id, section_id, idx,
                 case_map, run_id, failures, payload, success, report, maps, parser, wfound,
                 wmap, classifier, saved>>

\* testrail_sync.py 248
WorkerReturn(w) ==
  /\ wpc[w] = "find"
  /\ widx[w] > Len(results)
  /\ wpc' = [wpc EXCEPT ![w] = "returned"]
  /\ maps' = Append(maps, [inv |-> w, map |-> wmap[w]])
  /\ UNCHANGED <<results, pc, inv, registry, automated_type_id, section_id, idx, case_map,
                 run_id, failures, payload, success, report, log, parser, widx, wfound,
                 wmap, classifier, saved>>

ConcNext ==
  \/ \E w \in Workers : WorkerFind(w)
  \/ \E w \in Workers : WorkerWrite(w)
  \/ \E w \in Workers : WorkerFollow(w)
  \/ \E w \in Workers : WorkerReturn(w)

ConcSpec == ConcInit /\ [][ConcNext]_vars

\* C18: when concurrent syncs of the same Results have all returned, the
\* registry holds exactly one case for each automation id, whatever the
\* order in which the registry served their requests.
C18_OneCasePerAutomationId ==
  (\A w \in Workers : wpc[w] = "returned") =>
    \A i \in 1..Len(results) :
      Cardinality({ c \in 1..Len(cases) :
                      cases[c].custom_automation_id = SyncAutomationId(results[i]) }) = 1

\* ------------------------------------------------- the priority, alone
\* The scenario and feature texts _infer_priority is called with are made of
\* pieces: keywords of each class, in lower and in mixed case, and text that
\* is no keyword by itself.
Pieces ==
  { <<"s", "m", "o", "k", "e">>,
    <<"S", "m", "o", "k", "e">>,
    <<"c", "o", "r", "e">>,
    <<"e", "d", "g", "e">>,
    <<"p">>,
    <<"P">>,
    <<"1">>,
    <<"x">> }

RECURSIVE Flatten(_)
Flatten(ps) == IF ps = <<>> THEN <<>> ELSE Head(ps) \o Flatten(Tail(ps))

\* the texts of at most n pieces
Texts(n) == { Flatten(ps) : ps \in SeqsUpTo(Pieces, n) }

PriorityInit ==
  /\ subject \in { Result(f, sc, "passed", "", <<>>, <<>>, <<>>) :
                     f \in Texts(1), sc \in Texts(MaxPieces) }
  /\ priority = 0
  /\ expected = <<>>
  /\ results = <<>>
  /\ pc = "priority"
  /\ inv = 1
  /\ sections = <<>>
  /\ cases = <<>>
  /\ runs = <<>>
  /\ automated_type_id = 0
  /\ section_id = 0
  /\ idx = 0
  /\ case_map = EmptyMap
  /\ run_id = 0
  /\ failures = 0
  /\ payload = <<>>
  /\ success = FALSE
  /\ report = NoReport
  /\ log = <<>>
  /\ maps = <<>>
  /\ data = NoDocument
  /\ parsed = <<>>
  /\ ppc = "idle"
  /\ ConcIdle
  /\ saved = <<>>

\* testrail_sync.py 328: priority = self._infer_priority(result)
InferPriority ==
  /\ priority = 0
  /\ priority' = infer_priority(subject)
  /\ UNCHANGED <<results, pc, inv, registry, automated_type_id, section_id, idx, case_map,
                 run_id, failures, payload, success, report, log, maps, parser, conc,
                 subject, expected, saved>>

PriorityNext == InferPriority

PrioritySpec == PriorityInit /\ [][PriorityNext]_vars

\* one of the words is in the scenario text or in the feature text, the
\* case of the letters apart
InScenarioOrFeature(words) ==
  \E x \in words :
    \/ IsSubstring(x, Lower(subject.scenario))
    \/ IsSubstring(x, Lower(subject.feature))

\* C19: the priority is 5 exactly when the scenario or the feature text has
\* a critical keyword; else 4 exactly when one of them has a high keyword;
\* else 2 exactly when one of them has a low keyword; else 3.
C19_PriorityByKeywordInEitherText ==
  priority # 0 =>
    priority = (IF InScenarioOrFeature(CriticalWords) THEN 5
                ELSE IF InScenarioOrFeature(HighWords) THEN 4
                ELSE IF InScenarioOrFeature(LowWords) THEN 2
                ELSE 3)

\* ------------------------------------------- _build_expected_result, alone
\* the expected assertions a Result may carry
Assertions == { "Then status 200", "And match x == 1" }

\* Results as the parser builds them: an error message only on a failed
\* Result, and a failed Result of the summary format without one
BuilderSubjects ==
  { Result(<<"P">>, sc, se[1], se[2], g, <<>>, a) :
      sc \in { <<"P">>, <<"g">> },
      se \in { <<"passed", "">>, <<"failed", "boom">>, <<"failed", "">> },
      g \in { <<>>, << "When method get" >> },
      a \in SeqsUpTo(Assertions, MaxAssertions) }

BuilderInit ==
  /\ subject \in BuilderSubjects
  /\ priority = 0
  /\ expected = <<>>
  /\ results = <<>>
  /\ pc = "build"
  /\ inv = 1
  /\ sections = <<>>
  /\ cases = <<>>
  /\ runs = <<>>
  /\ automated_type_id = 0
  /\ section_id = 0
  /\ idx = 0
  /\ case_map = EmptyMap
  /\ run_id = 0
  /\ failures = 0
  /\ payload = <<>>
  /\ success = FALSE
  /\ report = NoReport
  /\ log = <<>>
  /\ maps = <<>>
  /\ data = NoDocument
  /\ parsed = <<>>
  /\ ppc = "idle"
  /\ ConcIdle
  /\ saved = <<>>

\* testrail_sync.py 332: expected_result = self._build_expected_result(result)
BuildExpectedResult ==
  /\ expected = <<>>
  /\ expected' = build_expected_result(subject)
  /\ UNCHANGED <<results, pc, inv, registry, automated_type_id, section_id, idx, case_map,
                 run_id, failures, payload, success, report, log, maps, parser, conc,
                 subject, priority, saved>>

BuilderNext == BuildExpectedResult

BuilderSpec == BuilderInit /\ [][BuilderNext]_vars

\* C23: the expected-result field of a Result holds, in this order, the
\* status banner, one line per expected assertion numbered 1..n in input
\* order, an error block exactly when the status of the Result is failed,
\* and the metadata footer.
C23_ExpectedResultBlocks ==
  expected # <<>> =>
    LET n == Len(subject.expected_assertions) IN
    /\ Len(expected) = 1 + n + (IF subject.status = "failed" THEN 1 ELSE 0) + 1
    /\ expected[1].block = "banner"
    /\ \A k \in 1..n :
         /\ expected[1 + k].block = "assertion"
         /\ expected[1 + k].n = k
         /\ expected[1 + k].text = clean_assertion(subject.expected_assertions[k])
    /\ subject.status = "failed" => expected[2 + n].block = "error"
    /\ expected[Len(expected)].block = "footer"
====
